---- MODULE Spec2Model ----
(***************************************************************************)
(* A model of InvenTree/InvenTree/tasks.py: the hold-off tracker           *)
(* (check_daily_holdoff, record_task_attempt, record_task_success) run by  *)
(* several worker processes on the shared settings store, the dispatcher   *)
(* (offload_task), schedule_task on the Schedule table, the registry of    *)
(* tasks (TaskRegister, scheduled_task), and the jobs run_backup,          *)
(* check_for_updates and check_for_migrations. Each component has its own  *)
(* specification; the variables of the others stay as they start.          *)
(*                                                                         *)
(* Time is counted in ticks of twelve hours. Strings are sequences of      *)
(* one-character strings, so that formatting, parsing and splitting are    *)
(* computed and not assumed.                                               *)
(***************************************************************************)
EXTENDS Integers, Sequences, FiniteSets, TLC

VARIABLES
    now,        \* the wall clock, datetime.now(), in ticks
    settings,   \* the InvenTreeSetting store: key -> stored string
    proc,       \* per worker: its position in check_daily_holdoff and its locals
    queue,      \* the tasks enqueued on the worker pool, in order
    invoked,    \* the functions run inline by offload_task, in order
    last,       \* the latest call of offload_task: its arguments and how it ended
    calls,      \* the number of calls of offload_task so far
    schedules,  \* the rows of django_q's Schedule table, in order of creation
    sproc,      \* per process: its position in schedule_task and its locals
    slog,       \* the calls of schedule_task that have returned, and how
    scalls,     \* the number of calls of schedule_task so far
    task_list,  \* TaskRegister.task_list, the list of the class
    rlast,      \* the latest registration: its arguments and how it ended
    rcalls,     \* the number of registrations so far
    maintenance,\* the maintenance flag (get_maintenance_mode())
    mig,        \* the run of check_for_migrations: its position and its locals
    mtrace,     \* the events of the latest run, each with the flag at that time
    mruns,      \* the number of runs of check_for_migrations so far
    backup,     \* per worker: its position in run_backup and its locals
    update      \* per worker: its position in check_for_updates and its locals

holdoffVars == <<now, settings, proc>>

offloadVars == <<queue, invoked, last, calls>>

scheduleVars == <<schedules, sproc, slog, scalls>>

registerVars == <<task_list, rlast, rcalls>>

migrationVars == <<maintenance, mig, mtrace, mruns>>

backupVars == <<backup>>

updateVars == <<update>>

nonHoldoffVars ==
    <<offloadVars, scheduleVars, registerVars, migrationVars, backupVars, updateVars>>

nonOffloadVars ==
    <<holdoffVars, scheduleVars, registerVars, migrationVars, backupVars, updateVars>>

nonScheduleVars ==
    <<holdoffVars, offloadVars, registerVars, migrationVars, backupVars, updateVars>>

nonRegisterVars ==
    <<holdoffVars, offloadVars, scheduleVars, migrationVars, backupVars, updateVars>>

nonMigrationVars ==
    <<holdoffVars, offloadVars, scheduleVars, registerVars, backupVars, updateVars>>

\* What run_backup leaves alone outside its calls of the hold-off tracker.
nonBackupVars == <<offloadVars, scheduleVars, registerVars, migrationVars, updateVars>>

\* What check_for_updates leaves alone outside its calls of the hold-off
\* tracker.
nonUpdateVars == <<offloadVars, scheduleVars, registerVars, migrationVars, backupVars>>

vars == <<now, settings, proc, queue, invoked, last, calls,
          schedules, sproc, slog, scalls, task_list, rlast, rcalls,
          maintenance, mig, mtrace, mruns, backup, update>>

-----------------------------------------------------------------------------
(* Bounds and program constants                                            *)

\* The clock stops at MaxTime ticks.
MaxTime == 4

\* The largest n_days a caller passes.
MaxDays == 2

\* The number of calls of offload_task.
MaxCalls == 1

\* The number of calls of schedule_task.
MaxScheduleCalls == 2

\* The number of registrations of tasks.
MaxRegistrations == 2

\* The number of runs of check_for_migrations.
MaxRuns == 2

\* timedelta(hours=12), in ticks (one tick is twelve hours).
AttemptHoldoff == 1

\* timedelta(days=1), in ticks.
Day == 2 * AttemptHoldoff

Workers == {"w1", "w2"}

Tasks == {"run_backup"}

NDays == -1 .. MaxDays

Times == 0 .. MaxTime

-----------------------------------------------------------------------------
(* Strings and timestamps                                                  *)

Digits == <<"0", "1", "2", "3", "4", "5", "6", "7", "8", "9">>

DigitChars == {Digits[i] : i \in 1 .. 10}

DigitValue(c) == (CHOOSE i \in 1 .. 10 : Digits[i] = c) - 1

\* The empty string, the default of get_setting.
Empty == <<>>

\* datetime.isoformat(): a fixed-width decimal rendering of the time.
IsoFormat(t) == <<Digits[(t \div 10) + 1], Digits[(t % 10) + 1]>>

\* A mutant of FromIsoFormat: any two characters are read as a timestamp,
\* an unreadable one as 0.
FromIsoFormatLenient(s) ==
    IF Len(s) = 2
    THEN [exc |-> "none",
          value |-> (IF s[1] \in DigitChars THEN DigitValue(s[1]) ELSE 0) * 10
                    + (IF s[2] \in DigitChars THEN DigitValue(s[2]) ELSE 0)]
    ELSE [exc |-> "ValueError", value |-> 0]

\* datetime.fromisoformat(s): the time, or ValueError when s is not of the format.
FromIsoFormat(s) ==
    IF Len(s) = 2 /\ s[1] \in DigitChars /\ s[2] \in DigitChars
    THEN [exc |-> "none", value |-> DigitValue(s[1]) * 10 + DigitValue(s[2])]
    ELSE [exc |-> "ValueError", value |-> 0]

\* Stored strings that are no timestamp.
Malformed == {<<"x">>, <<"0", "x">>}

AttemptKey(t) == <<"_", t, "_ATTEMPT">>

SuccessKey(t) == <<"_", t, "_SUCCESS">>

Keys == {AttemptKey(t) : t \in Tasks} \cup {SuccessKey(t) : t \in Tasks}

\* InvenTreeSetting.get_setting(key, default, cache=False)
GetSetting(key, default) ==
    IF key \in DOMAIN settings /\ settings[key] # Empty THEN settings[key] ELSE default

\* InvenTreeSetting.set_setting(key, value, None): the store after the write.
SetSetting(key, value) ==
    [k \in DOMAIN settings \cup {key} |-> IF k = key THEN value ELSE settings[k]]

-----------------------------------------------------------------------------
(* check_daily_holdoff, one step per access to the shared store            *)

NoTask == "none"

\* A worker that is not inside check_daily_holdoff.
Idle ==
    [pc |-> "idle", task |-> NoTask, n_days |-> 0, last_attempt |-> Empty,
     result |-> FALSE, line |-> 0, prev |-> Empty, wrote |-> -1]

\* `if last: try: last = datetime.fromisoformat(last) except ValueError: last = None`
\* kind "time": a datetime; "falsy": '' or None; "raise": an exception escapes.
ParseStored(raw) ==
    IF raw = Empty
    THEN [kind |-> "falsy", value |-> 0]
    ELSE LET r == FromIsoFormat(raw)
         IN  IF r.exc = "none" THEN [kind |-> "time", value |-> r.value]
             ELSE IF r.exc = "ValueError" THEN [kind |-> "falsy", value |-> 0]
             ELSE [kind |-> "raise", value |-> 0]

\* A mutant of SuccessTooRecent: the threshold is n_days half-days back.
SuccessTooRecentHalfDays(raw, n, t) ==
    LET last_success == ParseStored(raw)
    IN  /\ last_success.kind = "time"
        /\ last_success.value > t - n * AttemptHoldoff

\* `if last_success: threshold = now - timedelta(days=n_days);
\*  if last_success > threshold: return False`
SuccessTooRecent(raw, n, t) ==
    LET last_success == ParseStored(raw)
    IN  /\ last_success.kind = "time"
        /\ last_success.value > t - n * Day

\* A mutant of AttemptTooRecent: the comparison is the wrong way round.
AttemptTooRecentInverted(raw, t) ==
    LET last_attempt == ParseStored(raw)
    IN  /\ last_attempt.kind = "time"
        /\ last_attempt.value < t - AttemptHoldoff

\* A mutant of AttemptTooRecent: the threshold is a day back.
AttemptTooRecentDay(raw, t) ==
    LET last_attempt == ParseStored(raw)
    IN  /\ last_attempt.kind = "time"
        /\ last_attempt.value > t - Day

\* `if last_attempt: threshold = now - timedelta(hours=12);
\*  if last_attempt > threshold: return False`
AttemptTooRecent(raw, t) ==
    LET last_attempt == ParseStored(raw)
    IN  /\ last_attempt.kind = "time"
        /\ last_attempt.value > t - AttemptHoldoff

\* A mutant of CallHoldoff: the interval test is n_days < 0.
CallHoldoffStrict(w, t, n) ==
    /\ proc[w].pc = "idle"
    /\ proc' = [proc EXCEPT ![w] =
                  IF n < 0
                  THEN [Idle EXCEPT !.pc = "done", !.task = t, !.n_days = n,
                                    !.result = FALSE, !.line = 98]
                  ELSE [Idle EXCEPT !.pc = "success", !.task = t, !.n_days = n]]
    /\ UNCHANGED <<now, settings, nonHoldoffVars>>

\* Entry of check_daily_holdoff(t, n): the interval test, then the sleep.
CallHoldoff(w, t, n) ==
    /\ proc[w].pc = "idle"
    /\ proc' = [proc EXCEPT ![w] =
                  IF n <= 0
                  THEN [Idle EXCEPT !.pc = "done", !.task = t, !.n_days = n,
                                    !.result = FALSE, !.line = 98]
                  ELSE [Idle EXCEPT !.pc = "success", !.task = t, !.n_days = n]]
    /\ UNCHANGED <<now, settings, nonHoldoffVars>>

\* The read of SUCCESS and the long-horizon guard.
CheckSuccess(w) ==
    /\ proc[w].pc = "success"
    /\ LET raw == GetSetting(SuccessKey(proc[w].task), Empty)
       IN  proc' = [proc EXCEPT ![w] =
                      IF ParseStored(raw).kind = "raise"
                      THEN [@ EXCEPT !.pc = "raised"]
                      ELSE IF SuccessTooRecent(raw, proc[w].n_days, now)
                      THEN [@ EXCEPT !.pc = "done", !.result = FALSE, !.line = 120]
                      ELSE [@ EXCEPT !.pc = "attempt"]]
    /\ UNCHANGED <<now, settings, nonHoldoffVars>>

\* The read of ATTEMPT and the twelve-hour guard.
CheckAttempt(w) ==
    /\ proc[w].pc = "attempt"
    /\ LET raw == GetSetting(AttemptKey(proc[w].task), Empty)
       IN  proc' = [proc EXCEPT ![w] =
                      IF ParseStored(raw).kind = "raise"
                      THEN [@ EXCEPT !.pc = "raised", !.last_attempt = raw]
                      ELSE IF AttemptTooRecent(raw, now)
                      THEN [@ EXCEPT !.pc = "done", !.result = FALSE, !.line = 137,
                                     !.last_attempt = raw]
                      ELSE [@ EXCEPT !.pc = "record", !.last_attempt = raw]]
    /\ UNCHANGED <<now, settings, nonHoldoffVars>>

\* A mutant of record_task_attempt: the time is written to the SUCCESS key.
record_task_attempt_wrong_key(w) ==
    /\ proc[w].pc = "record"
    /\ settings' = SetSetting(SuccessKey(proc[w].task), IsoFormat(now))
    /\ proc' = [proc EXCEPT ![w] =
                  [@ EXCEPT !.pc = "done", !.result = TRUE, !.line = 143,
                            !.prev = GetSetting(AttemptKey(proc[w].task), Empty),
                            !.wrote = now]]
    /\ UNCHANGED <<now, nonHoldoffVars>>

\* record_task_attempt(task_name), then `return True`.
record_task_attempt(w) ==
    /\ proc[w].pc = "record"
    /\ settings' = SetSetting(AttemptKey(proc[w].task), IsoFormat(now))
    /\ proc' = [proc EXCEPT ![w] =
                  [@ EXCEPT !.pc = "done", !.result = TRUE, !.line = 143,
                            !.prev = GetSetting(AttemptKey(proc[w].task), Empty),
                            !.wrote = now]]
    /\ UNCHANGED <<now, nonHoldoffVars>>

\* The caller has the result; the worker is free for the next call.
ReturnHoldoff(w) ==
    /\ proc[w].pc \in {"done", "raised"}
    /\ proc' = [proc EXCEPT ![w] = Idle]
    /\ UNCHANGED <<now, settings, nonHoldoffVars>>

\* record_task_success(task_name)
record_task_success(t) ==
    /\ settings' = SetSetting(SuccessKey(t), IsoFormat(now))
    /\ UNCHANGED <<now, proc, nonHoldoffVars>>

\* Twelve hours pass.
Tick ==
    /\ now < MaxTime
    /\ now' = now + 1
    /\ UNCHANGED <<settings, proc, nonHoldoffVars>>

-----------------------------------------------------------------------------
(* offload_task                                                            *)

\* Python functions: f returns, g raises in its body, heartbeat is the
\* function of that name defined in tasks.py.
Functions == {"f", "g", "heartbeat"}

\* The exception the body of a function ends with, "none" when it returns.
BodyException(fn) == IF fn = "g" THEN "TaskError" ELSE "none"

\* The modules that can be imported, with what each exports.
Modules ==
    [m \in {<<"a", ".", "b">>} |-> [n \in {<<"c">>, <<"r">>} |->
                                      IF n = <<"c">> THEN "f" ELSE "g"]]

\* The names eval() finds from inside offload_task: the globals of tasks.py,
\* among them the function heartbeat (written h here).
EvalScope == [n \in {<<"h">>} |-> "heartbeat"]

NoObject == "None"

\* A task given as a function.
Callable(fn) == [callable |-> TRUE, name |-> fn, str |-> <<>>]

\* A task given as a string.
Path(chars) == [callable |-> FALSE, name |-> "", str |-> chars]

\* The tasks offload_task is called with.
TaskNames ==
    {Callable("f"), Callable("g")} \cup
    { Path(<<"a", ".", "b", ".", "c">>),            \* a.b.c: module a.b exports c
      Path(<<"a", ".", "b", ".", "r">>),            \* a.b.r: exported, raises
      Path(<<"a", ".", "b">>),                      \* a.b: two components
      Path(<<"a", ".", "b", ".", "c", ".", "d">>),  \* a.b.c.d: four components
      Path(<<"a", ".", "x", ".", "c">>),            \* a.x.c: no module a.x
      Path(<<"a", ".", "b", ".", "z">>),            \* a.b.z: no z anywhere
      Path(<<"a", ".", "b", ".", "h">>) }           \* a.b.h: no h in a.b

\* The positional and keyword arguments of a call.
Arguments ==
    { [args |-> <<>>, kwargs |-> <<>>],
      [args |-> <<1>>, kwargs |-> << <<"k", 2>> >>] }

\* How the imports at the head of offload_task end: all three succeed, or one
\* raises AppRegistryNotReady, or the import of django_q.tasks or the one of
\* InvenTree.status raises OperationalError or ProgrammingError.
ImportOutcomes ==
    {"ok", "AppRegistryNotReady", "OperationalError_django_q", "OperationalError_status"}

\* The names of the try block that are bound after it.
BoundNames(imports) ==
    CASE imports = "ok" -> {"importlib", "AsyncTask", "is_worker_running"}
      [] imports = "OperationalError_status" -> {"importlib", "AsyncTask"}
      [] OTHER -> {"importlib"}

RECURSIVE Split(_, _)
\* str.split(sep): the pieces between the separators, empty ones included.
Split(s, sep) ==
    IF s = <<>> THEN << <<>> >>
    ELSE IF Head(s) = sep THEN << <<>> >> \o Split(Tail(s), sep)
    ELSE LET rest == Split(Tail(s), sep)
         IN  << <<Head(s)>> \o Head(rest) >> \o Tail(rest)

\* importlib.import_module(name) without a package argument.
ImportModule(name) ==
    IF name # <<>> /\ Head(name) = "."
    THEN [exc |-> "TypeError", attrs |-> <<>>]
    ELSE IF name \in DOMAIN Modules
    THEN [exc |-> "none", attrs |-> Modules[name]]
    ELSE [exc |-> "ModuleNotFoundError", attrs |-> <<>>]

\* eval(func) in the scope of offload_task.
Eval(expr) ==
    IF expr = <<>> THEN [exc |-> "SyntaxError", obj |-> NoObject]
    ELSE IF expr \in DOMAIN EvalScope THEN [exc |-> "none", obj |-> EvalScope[expr]]
    ELSE [exc |-> "NameError", obj |-> NoObject]

\* A mutant of TakeAsync: force_sync wins over force_async.
TakeAsyncSyncWins(force_async, force_sync, live) ==
    (force_async \/ live) /\ ~force_sync

\* `if force_async or (is_worker_running() and not force_sync):`
TakeAsync(force_async, force_sync, live) ==
    force_async \/ (live /\ ~force_sync)

\* The synchronous branch up to the call: the function to run ("call"), or a
\* warning and return ("warn"), or an exception that is not caught ("raise").
ResolveSync(taskname) ==
    IF taskname.callable
    THEN [outcome |-> "call", func |-> taskname.name, exc |-> "none"]
    ELSE
    LET parts == Split(taskname.str, ".")
    IN  IF Len(parts) # 3
        THEN [outcome |-> "warn", func |-> NoObject, exc |-> "none"]
        ELSE
        LET app_mod == parts[1] \o <<".">> \o parts[2]
            func == parts[3]
            mod == ImportModule(app_mod)
        IN  IF mod.exc = "ModuleNotFoundError"
            THEN [outcome |-> "warn", func |-> NoObject, exc |-> "none"]
            ELSE IF mod.exc # "none"
            THEN [outcome |-> "raise", func |-> NoObject, exc |-> mod.exc]
            ELSE
            LET attr == IF func \in DOMAIN mod.attrs THEN mod.attrs[func] ELSE NoObject
                found == IF attr = NoObject THEN Eval(func)
                         ELSE [exc |-> "none", obj |-> attr]
            IN  IF found.exc = "NameError"
                THEN [outcome |-> "warn", func |-> NoObject, exc |-> "none"]
                ELSE IF found.exc # "none"
                THEN [outcome |-> "raise", func |-> NoObject, exc |-> found.exc]
                ELSE [outcome |-> "call", func |-> found.obj, exc |-> "none"]

\* A mutant of Invoke: the keyword arguments are not passed on.
InvokeWithoutKwargs(log, fn, a) ==
    Append(log, [func |-> fn, args |-> a.args, kwargs |-> <<>>])

\* `_func(*args, **kwargs)`
Invoke(log, fn, a) ==
    Append(log, [func |-> fn, args |-> a.args, kwargs |-> a.kwargs])

\* A mutant of Enqueue: the task is enqueued without its arguments.
EnqueueWithoutArguments(q, taskname, a) ==
    Append(q, [task |-> taskname, args |-> <<>>, kwargs |-> <<>>])

\* `task = AsyncTask(taskname, *args, **kwargs); task.run()`
Enqueue(q, taskname, a) ==
    Append(q, [task |-> taskname, args |-> a.args, kwargs |-> a.kwargs])

\* No call of offload_task yet.
NoCall ==
    [taskname |-> Callable("f"), arguments |-> [args |-> <<>>, kwargs |-> <<>>],
     force_async |-> FALSE, force_sync |-> FALSE, live |-> FALSE,
     imports |-> "ok", enqueue |-> "ok", path |-> "none", exc |-> "none",
     warned |-> FALSE]

\* offload_task(taskname, *args, force_async, force_sync, **kwargs), from the
\* call to the return or the exception. live is what is_worker_running()
\* answers, imports how the imports end; AsyncTask.run() enqueues the task or
\* raises ImportError.
offload_task(taskname, a, force_async, force_sync, live, imports) ==
    LET call == [taskname |-> taskname, arguments |-> a,
                 force_async |-> force_async, force_sync |-> force_sync,
                 live |-> live, imports |-> imports, enqueue |-> "ok",
                 path |-> "none", exc |-> "none", warned |-> FALSE]
        bound == BoundNames(imports)
        unbound == [call EXCEPT !.exc = "UnboundLocalError", !.warned = TRUE]
    IN
    /\ calls < MaxCalls
    /\ calls' = calls + 1
    /\ IF imports = "AppRegistryNotReady"
       THEN \* logged, return
            /\ last' = [call EXCEPT !.warned = TRUE]
            /\ UNCHANGED <<queue, invoked>>
       ELSE IF ~force_async /\ "is_worker_running" \notin bound
       THEN /\ last' = unbound
            /\ UNCHANGED <<queue, invoked>>
       ELSE IF TakeAsync(force_async, force_sync, live)
       THEN IF "AsyncTask" \notin bound
            THEN /\ last' = [unbound EXCEPT !.path = "async"]
                 /\ UNCHANGED <<queue, invoked>>
            ELSE \/ \* `except ImportError:` a warning, the task is dropped
                    /\ last' = [call EXCEPT !.path = "async", !.enqueue = "ImportError",
                                            !.warned = TRUE]
                    /\ UNCHANGED <<queue, invoked>>
                 \/ /\ last' = [call EXCEPT !.path = "async", !.warned = (imports # "ok")]
                    /\ queue' = Enqueue(queue, taskname, a)
                    /\ UNCHANGED invoked
       ELSE LET r == ResolveSync(taskname)
            IN  CASE r.outcome = "warn" ->
                       /\ last' = [call EXCEPT !.path = "sync", !.warned = TRUE]
                       /\ UNCHANGED <<queue, invoked>>
                  [] r.outcome = "raise" ->
                       /\ last' = [call EXCEPT !.path = "sync", !.exc = r.exc]
                       /\ UNCHANGED <<queue, invoked>>
                  [] OTHER ->
                       /\ last' = [call EXCEPT !.path = "sync",
                                               !.exc = BodyException(r.func)]
                       /\ invoked' = Invoke(invoked, r.func, a)
                       /\ UNCHANGED queue
    /\ UNCHANGED nonOffloadVars

-----------------------------------------------------------------------------
(* schedule_task, one step per access to the Schedule table                *)

\* The processes that call schedule_task (each server and worker process
\* schedules the registered tasks when it starts).
Procs == {"p1", "p2"}

\* The task names given to schedule_task.
ScheduleNames == {"x", "y"}

\* A NULL column (Python None).
Null == 0

\* The keyword arguments of a call: a function from the names passed to their
\* values. Each argument is given here as a sequence, empty when the argument
\* is left out.
KwargsOf(schedule_type, minutes, repeats) ==
    LET given == [schedule_type |-> schedule_type, minutes |-> minutes,
                  repeats |-> repeats]
    IN [k \in {n \in DOMAIN given : given[n] # <<>>} |-> given[k][1]]

\* The calls made: an interval code or none, a number of minutes or none, a
\* number of repeats or none.
Kwargs ==
    { KwargsOf(s, m, r) : s \in {<<>>, <<"D">>, <<"I">>},
                          m \in {<<>>, <<5>>}, r \in {<<>>, <<3>>} }

\* `repeats = kwargs.pop('repeats', -1); kwargs['repeats'] = repeats`
WithRepeats(kw) ==
    [k \in DOMAIN kw \cup {"repeats"} |->
        IF k \in DOMAIN kw THEN kw[k] ELSE -1]

\* The columns of a row that Schedule.objects.create fills when the call does
\* not pass them (django_q: schedule_type ONCE, minutes NULL, repeats -1).
ScheduleDefaults == [schedule_type |-> "O", minutes |-> Null, repeats |-> -1]

\* `Schedule.objects.filter(func=taskname).exists()`
Exists(rows, taskname) ==
    \E i \in 1 .. Len(rows) : rows[i].func = taskname

\* A mutant of Update: the row is replaced by what the call passes, with the
\* defaults for the rest.
UpdateReplacing(rows, taskname, kw) ==
    [i \in 1 .. Len(rows) |->
        IF rows[i].func = taskname
        THEN [k \in DOMAIN rows[i] |->
                IF k \in DOMAIN kw THEN kw[k]
                ELSE IF k \in DOMAIN ScheduleDefaults THEN ScheduleDefaults[k]
                ELSE rows[i][k]]
        ELSE rows[i]]

\* `Schedule.objects.filter(func=taskname).update(**kwargs)`: every row of
\* that func gets the columns passed, and keeps the others.
Update(rows, taskname, kw) ==
    [i \in 1 .. Len(rows) |->
        IF rows[i].func = taskname
        THEN [k \in DOMAIN rows[i] |->
                IF k \in DOMAIN kw THEN kw[k] ELSE rows[i][k]]
        ELSE rows[i]]

\* `Schedule.objects.create(name=taskname, func=taskname, **kwargs)`
Create(rows, taskname, kw) ==
    Append(rows, [k \in {"name", "func"} \cup DOMAIN ScheduleDefaults |->
                    IF k \in {"name", "func"} THEN taskname
                    ELSE IF k \in DOMAIN kw THEN kw[k]
                    ELSE ScheduleDefaults[k]])

\* What a statement on the table can end in: the two exceptions are those of a
\* database that is not migrated or not connected.
DbOutcomes == {"ok", "OperationalError", "ProgrammingError"}

\* What the import of django_q.models can end in.
ScheduleImports == {"ok", "AppRegistryNotReady"}

\* A process that is not in schedule_task.
NotScheduling ==
    [pc |-> "idle", taskname |-> "", passed |-> <<>>, kwargs |-> WithRepeats(<<>>)]

\* The record of a call that has returned: the arguments as passed, the
\* kwargs after line 40, and the outcome: "created", "updated", or the
\* exception that was caught.
Returned(p, outcome) ==
    Append(slog, [proc |-> p, taskname |-> sproc[p].taskname,
                  passed |-> sproc[p].passed, kwargs |-> sproc[p].kwargs,
                  outcome |-> outcome])

\* Lines 39-46: the call, the default of repeats and the import.
schedule_task(p, taskname, kw, imp) ==
    /\ sproc[p].pc = "idle"
    /\ scalls < MaxScheduleCalls
    /\ scalls' = scalls + 1
    /\ IF imp = "AppRegistryNotReady"
       THEN /\ slog' = Append(slog, [proc |-> p, taskname |-> taskname,
                                     passed |-> kw, kwargs |-> WithRepeats(kw),
                                     outcome |-> imp])
            /\ UNCHANGED sproc
       ELSE /\ sproc' = [sproc EXCEPT ![p] = [pc |-> "exists", taskname |-> taskname,
                                              passed |-> kw,
                                              kwargs |-> WithRepeats(kw)]]
            /\ UNCHANGED slog
    /\ UNCHANGED <<schedules, nonScheduleVars>>

\* Line 51: the query whether a row of this func exists; lines 63-65 when the
\* database is not ready.
ScheduleExists(p, db) ==
    /\ sproc[p].pc = "exists"
    /\ IF db = "ok"
       THEN /\ sproc' = [sproc EXCEPT ![p].pc =
                            IF Exists(schedules, sproc[p].taskname)
                            THEN "update" ELSE "create"]
            /\ UNCHANGED slog
       ELSE /\ sproc' = [sproc EXCEPT ![p] = NotScheduling]
            /\ slog' = Returned(p, db)
    /\ UNCHANGED <<schedules, scalls, nonScheduleVars>>

\* Line 54: the update of the rows of this func.
ScheduleUpdate(p, db) ==
    /\ sproc[p].pc = "update"
    /\ IF db = "ok"
       THEN /\ schedules' = Update(schedules, sproc[p].taskname, sproc[p].kwargs)
            /\ slog' = Returned(p, "updated")
       ELSE /\ slog' = Returned(p, db)
            /\ UNCHANGED schedules
    /\ sproc' = [sproc EXCEPT ![p] = NotScheduling]
    /\ UNCHANGED <<scalls, nonScheduleVars>>

\* A mutant of ScheduleCreate: the row is written although the statement
\* ended in an exception.
ScheduleCreateDespiteError(p, db) ==
    /\ sproc[p].pc = "create"
    /\ schedules' = Create(schedules, sproc[p].taskname, sproc[p].kwargs)
    /\ slog' = Returned(p, IF db = "ok" THEN "created" ELSE db)
    /\ sproc' = [sproc EXCEPT ![p] = NotScheduling]
    /\ UNCHANGED <<scalls, nonScheduleVars>>

\* Lines 58-62: the creation of the row.
ScheduleCreate(p, db) ==
    /\ sproc[p].pc = "create"
    /\ IF db = "ok"
       THEN /\ schedules' = Create(schedules, sproc[p].taskname, sproc[p].kwargs)
            /\ slog' = Returned(p, "created")
       ELSE /\ slog' = Returned(p, db)
            /\ UNCHANGED schedules
    /\ sproc' = [sproc EXCEPT ![p] = NotScheduling]
    /\ UNCHANGED <<scalls, nonScheduleVars>>

-----------------------------------------------------------------------------
(* ScheduledTask, TaskRegister and the decorator scheduled_task            *)

\* `TYPE = [MINUTES, HOURLY, DAILY, WEEKLY, MONTHLY, QUARTERLY, YEARLY]`
TYPE == <<"I", "H", "D", "W", "M", "Q", "Y">>

\* The intervals given at a registration: the seven codes and one that is
\* none of them.
Intervals == {TYPE[i] : i \in 1 .. Len(TYPE)} \cup {"Z"}

\* The objects given as the task: two functions and a string.
Objects ==
    { [callable |-> TRUE, name |-> "f"], [callable |-> TRUE, name |-> "g"],
      [callable |-> FALSE, name |-> "s"] }

\* The minutes given: None or a number.
MinutesGiven == {Null, 5}

\* The instances of TaskRegister: the module's `tasks` and one made by a
\* caller.
Registers == {"tasks", "other"}

\* The tasklist argument of the decorator: None or an instance.
TasklistGiven == {NoObject, "other"}

\* The dataclass: `ScheduledTask(task, schedule, minutes)`
ScheduledTask(func, interval, minutes) ==
    [func |-> func, interval |-> interval, minutes |-> minutes]

\* `isinstance(admin_class, Callable)`
IsCallable(obj) == obj.callable

\* `interval not in ScheduledTask.TYPE`
ValidInterval(interval) == \E i \in 1 .. Len(TYPE) : TYPE[i] = interval

\* No registration yet.
NoRegistration ==
    [via |-> "none", self |-> "tasks", task |-> [callable |-> TRUE, name |-> "f"],
     interval |-> "D", minutes |-> Null, exc |-> "none"]

\* `reg.task_list` for an instance reg of TaskRegister: no code gives an
\* instance a task_list of its own (the class has no __init__ and line 257
\* appends, it does not assign), so the lookup ends at the attribute of the
\* class made at line 253.
TaskListOf(reg) == task_list

\* Lines 255-257: `self.task_list.append(ScheduledTask(task, schedule, minutes))`.
\* task_list is an attribute of the class, so self.task_list is the one list
\* whatever the instance.
register(self, task, schedule, minutes) ==
    /\ rcalls < MaxRegistrations
    /\ rcalls' = rcalls + 1
    /\ task_list' = Append(task_list, ScheduledTask(task, schedule, minutes))
    /\ rlast' = [via |-> "register", self |-> self, task |-> task,
                 interval |-> schedule, minutes |-> minutes, exc |-> "none"]
    /\ UNCHANGED nonRegisterVars

\* Lines 286-296: the decorator made by scheduled_task(interval, minutes,
\* tasklist) applied to admin_class.
scheduled_task(interval, minutes, tasklist, admin_class) ==
    LET _tasks == IF tasklist # NoObject THEN tasklist ELSE "tasks"
        call == [via |-> "scheduled_task", self |-> _tasks, task |-> admin_class,
                 interval |-> interval, minutes |-> minutes, exc |-> "none"]
    IN /\ rcalls < MaxRegistrations
       /\ rcalls' = rcalls + 1
       /\ IF ~IsCallable(admin_class) \/ ~ValidInterval(interval)
          THEN /\ rlast' = [call EXCEPT !.exc = "ValueError"]
               /\ UNCHANGED task_list
          ELSE /\ task_list' = Append(task_list, ScheduledTask(admin_class, interval, minutes))
               /\ rlast' = call
       /\ UNCHANGED nonRegisterVars

-----------------------------------------------------------------------------
(* check_for_migrations, one step per statement that reads or writes the   *)
(* maintenance flag, applies the migrations or reloads the plugins         *)

\* `settings.DATABASES['default']['ENGINE']`
Engines ==
    {"django.db.backends.sqlite3", "django.db.backends.postgresql",
     "django.db.backends.mysql"}

\* What `call_command('migrate', interactive=False)` can end in.
MigrateOutcomes == {"ok", "NotSupportedError", "OperationalError"}

\* The migration plan: none open, or some.
Plans == {<<>>, <<"0001_initial">>, <<"0001_initial", "0002_auto">>}

\* No run under way. engine is the setting of the deployment; the other
\* fields are the locals of the latest run and how it ended.
NoRun(engine) ==
    [pc |-> "idle", engine |-> engine, auto_update |-> FALSE, plan |-> <<>>,
     old_value |-> FALSE, outcome |-> "none", exc |-> "none"]

\* An event of the run, with the flag as it is after the event.
Event(ev, flag) == [ev |-> ev, flag |-> flag]

\* A mutant of Absorbed: the error is absorbed on every engine.
AbsorbedEverywhere(outcome, engine) ==
    outcome = "NotSupportedError"

\* Lines 626-629: the exception of migrate is caught and logged when it is a
\* NotSupportedError and the engine is sqlite3.
Absorbed(outcome, engine) ==
    /\ outcome = "NotSupportedError"
    /\ engine = "django.db.backends.sqlite3"

\* Lines 590-603: the call, the test of the auto-update setting and of the
\* plan.
check_for_migrations(auto_update, plan) ==
    /\ mig.pc = "idle"
    /\ mruns < MaxRuns
    /\ mruns' = mruns + 1
    /\ mtrace' = <<>>
    /\ mig' = [NoRun(mig.engine) EXCEPT
                 !.auto_update = auto_update, !.plan = plan,
                 !.pc = IF auto_update /\ plan # <<>> THEN "set" ELSE "idle"]
    /\ UNCHANGED <<maintenance, nonMigrationVars>>

\* Line 610: `set_maintenance_mode(True)`
SetMaintenance ==
    /\ mig.pc = "set"
    /\ maintenance' = TRUE
    /\ mtrace' = Append(mtrace, Event("set_true", TRUE))
    /\ mig' = [mig EXCEPT !.pc = "enter"]
    /\ UNCHANGED <<mruns, nonMigrationVars>>

\* Line 620: `with maintenance_mode_on():`, the entry. The context manager
\* notes the flag it finds and sets the flag.
EnterMaintenanceModeOn ==
    /\ mig.pc = "enter"
    /\ maintenance' = TRUE
    /\ mtrace' = Append(mtrace, Event("enter", TRUE))
    /\ mig' = [mig EXCEPT !.pc = "migrate", !.old_value = maintenance]
    /\ UNCHANGED <<mruns, nonMigrationVars>>

\* Lines 624-629: migrate, and the handler of NotSupportedError.
Migrate(outcome) ==
    /\ mig.pc = "migrate"
    /\ mtrace' = Append(mtrace, Event(IF outcome = "ok" THEN "migrate" ELSE outcome,
                                      maintenance))
    /\ mig' = [mig EXCEPT !.pc = "exit", !.outcome = outcome,
                          !.exc = IF outcome = "ok" \/ Absorbed(outcome, mig.engine)
                                  THEN "none" ELSE outcome]
    /\ UNCHANGED <<maintenance, mruns, nonMigrationVars>>

\* Line 620, the exit of the block, on the normal path and on that of an
\* exception. maintenance_mode_on is the library's (not in this file): its
\* exit puts the flag back to the value noted at the entry; a release to False
\* is the other outcome the code provides for (line 636 tests which of the
\* two happened). An exception of the block goes on to the caller from here.
ExitMaintenanceModeOn(released) ==
    /\ mig.pc = "exit"
    /\ maintenance' = IF released THEN FALSE ELSE mig.old_value
    /\ mtrace' = Append(mtrace, Event("exit", maintenance'))
    /\ mig' = [mig EXCEPT !.pc = IF mig.exc = "none" THEN "check" ELSE "idle"]
    /\ UNCHANGED <<mruns, nonMigrationVars>>

\* A mutant of ForceClear: the flag is not looked at after the block.
ForceClearSkipped ==
    /\ mig.pc = "check"
    /\ mig' = [mig EXCEPT !.pc = "reload"]
    /\ UNCHANGED <<maintenance, mtrace, mruns, nonMigrationVars>>

\* Lines 636-640: `if get_maintenance_mode(): set_maintenance_mode(False)`
ForceClear ==
    /\ mig.pc = "check"
    /\ IF maintenance
       THEN /\ maintenance' = FALSE
            /\ mtrace' = Append(mtrace, Event("force_clear", FALSE))
       ELSE UNCHANGED <<maintenance, mtrace>>
    /\ mig' = [mig EXCEPT !.pc = "reload"]
    /\ UNCHANGED <<mruns, nonMigrationVars>>

\* Line 644: `registry.reload_plugins(full_reload=True, force_reload=True)`
ReloadPlugins ==
    /\ mig.pc = "reload"
    /\ mtrace' = Append(mtrace, Event("reload", maintenance))
    /\ mig' = [mig EXCEPT !.pc = "idle"]
    /\ UNCHANGED <<maintenance, mruns, nonMigrationVars>>

-----------------------------------------------------------------------------
(* run_backup, one step per access to the settings and per command         *)

\* What a backup command can end in: it returns, or raises.
CommandOutcomes == {"ok", "CommandError"}

\* The values of INVENTREE_BACKUP_DAYS.
BackupDays == 0 .. MaxDays

\* A worker that is not in run_backup; the fields are those of its latest
\* run: the settings read, the result of the gate, the commands invoked with
\* their outcomes, and the exception the run ended with.
NoBackup ==
    [pc |-> "idle", enabled |-> FALSE, interval |-> 0, gate |-> FALSE,
     ran |-> <<>>, exc |-> "none"]

\* Lines 542-546: the read of INVENTREE_BACKUP_ENABLE and, when backups are
\* enabled, of INVENTREE_BACKUP_DAYS.
run_backup(w, enabled, interval) ==
    /\ backup[w].pc = "idle"
    /\ proc[w].pc = "idle"
    /\ backup' = [backup EXCEPT ![w] =
                    IF enabled
                    THEN [NoBackup EXCEPT !.pc = "call", !.enabled = TRUE,
                                          !.interval = interval]
                    ELSE NoBackup]
    /\ UNCHANGED <<holdoffVars, nonBackupVars>>

\* Line 549: the call `check_daily_holdoff('run_backup', interval)`.
BackupCallHoldoff(w) ==
    /\ backup[w].pc = "call"
    /\ CallHoldoff(w, "run_backup", backup[w].interval)

\* Lines 549-550: the result of the gate: False ends the run.
BackupGate(w) ==
    /\ backup[w].pc = "call"
    /\ proc[w].pc \in {"done", "raised"}
    /\ proc' = [proc EXCEPT ![w] = Idle]
    /\ backup' = [backup EXCEPT ![w] =
                    IF proc[w].pc = "raised"
                    THEN [@ EXCEPT !.pc = "idle", !.exc = "Exception"]
                    ELSE IF proc[w].result
                    THEN [@ EXCEPT !.pc = "dbbackup", !.gate = TRUE]
                    ELSE [@ EXCEPT !.pc = "idle"]]
    /\ UNCHANGED <<now, settings, nonBackupVars>>

\* Line 554: `call_command("dbbackup", ...)`; an exception of the command
\* ends the run.
DbBackup(w, outcome) ==
    /\ backup[w].pc = "dbbackup"
    /\ backup' = [backup EXCEPT ![w] =
                    [@ EXCEPT !.ran = Append(@, <<"dbbackup", outcome>>),
                              !.pc = IF outcome = "ok" THEN "mediabackup" ELSE "idle",
                              !.exc = IF outcome = "ok" THEN "none" ELSE outcome]]
    /\ UNCHANGED <<holdoffVars, nonBackupVars>>

\* A mutant of MediaBackup: the run goes on after a command that raised.
MediaBackupGoingOn(w, outcome) ==
    /\ backup[w].pc = "mediabackup"
    /\ backup' = [backup EXCEPT ![w] =
                    [@ EXCEPT !.ran = Append(@, <<"mediabackup", outcome>>),
                              !.pc = "success"]]
    /\ UNCHANGED <<holdoffVars, nonBackupVars>>

\* Line 555: `call_command("mediabackup", ...)`
MediaBackup(w, outcome) ==
    /\ backup[w].pc = "mediabackup"
    /\ backup' = [backup EXCEPT ![w] =
                    [@ EXCEPT !.ran = Append(@, <<"mediabackup", outcome>>),
                              !.pc = IF outcome = "ok" THEN "success" ELSE "idle",
                              !.exc = IF outcome = "ok" THEN "none" ELSE outcome]]
    /\ UNCHANGED <<holdoffVars, nonBackupVars>>

\* Line 558: `record_task_success('run_backup')`
BackupSuccess(w) ==
    /\ backup[w].pc = "success"
    /\ settings' = SetSetting(SuccessKey("run_backup"), IsoFormat(now))
    /\ backup' = [backup EXCEPT ![w].pc = "idle"]
    /\ UNCHANGED <<now, proc, nonBackupVars>>

-----------------------------------------------------------------------------
(* check_for_updates, one step per access to the settings, and one for the *)
(* request and the parsing of its response                                 *)

\* The tags of the response, as strings of characters: v1.2.3-f, 12.0.7,
\* rel-one and 1.2.
TagNames ==
    { <<"v", "1", ".", "2", ".", "3", "-", "f">>,
      <<"1", "2", ".", "0", ".", "7">>,
      <<"r", "e", "l", "-", "o", "n", "e">>,
      <<"1", ".", "2">> }

\* What the request can end in: a status code and, in the JSON of the body,
\* a tag_name, or none (the empty string here).
Responses ==
    {[status_code |-> 200, tag_name |-> t] : t \in TagNames \cup {Empty}}
        \cup {[status_code |-> 404, tag_name |-> Empty]}

RECURSIVE DigitRun(_, _)
\* The length of the longest run of digits of s that starts at place i.
DigitRun(s, i) ==
    IF i <= Len(s) /\ s[i] \in DigitChars THEN 1 + DigitRun(s, i + 1) ELSE 0

RECURSIVE ToInt(_)
\* `int(x)` of a string of digits.
ToInt(x) ==
    IF x = <<>> THEN 0
    ELSE 10 * ToInt(SubSeq(x, 1, Len(x) - 1)) + DigitValue(x[Len(x)])

\* The places where the three groups of `(\d+)\.(\d+)\.(\d+)` stand when the
\* text before them has i characters: [ok, a, b, c] with the lengths of the
\* groups. A group followed by `\.` is the whole run of digits up to the dot.
GroupsAfter(s, i) ==
    LET a == DigitRun(s, i + 1)
        b == DigitRun(s, i + a + 2)
        c == DigitRun(s, i + a + b + 3)
    IN  [ok |-> /\ a > 0 /\ i + a + 1 <= Len(s) /\ s[i + a + 1] = "."
                /\ b > 0 /\ i + a + b + 2 <= Len(s) /\ s[i + a + b + 2] = "."
                /\ c > 0,
         a |-> a, b |-> b, c |-> c]

\* `re.match(r"^.*(\d+)\.(\d+)\.(\d+).*$", tag)`: None (matched FALSE), or
\* the match with its three groups. The first `.*` is greedy: it takes the
\* longest text after which the groups still stand.
Match(tag) ==
    LET starts == {i \in 0 .. Len(tag) : GroupsAfter(tag, i).ok}
    IN  IF starts = {} THEN [matched |-> FALSE, groups |-> <<>>]
        ELSE LET i == CHOOSE m \in starts : \A n \in starts : n <= m
                 g == GroupsAfter(tag, i)
             IN  [matched |-> TRUE,
                  groups |-> <<SubSeq(tag, i + 1, i + g.a),
                               SubSeq(tag, i + g.a + 2, i + g.a + g.b + 1),
                               SubSeq(tag, i + g.a + g.b + 3, i + g.a + g.b + g.c + 2)>>]

\* The key of the latest version in the settings.
LatestVersionKey == <<"_INVENTREE_LATEST_VERSION">>

\* The values of INVENTREE_UPDATE_CHECK_INTERVAL.
UpdateIntervals == 0 .. MaxDays

\* What the import of common.models can end in.
UpdateImports == {"ok", "AppRegistryNotReady"}

\* A worker that is not in check_for_updates; the fields are those of its
\* latest run: the interval read, the result of the gate, the tag of the
\* response, latest_version, whether a message was logged for the tag, and
\* the exception the run ended with.
NoUpdate ==
    [pc |-> "idle", interval |-> 0, gate |-> FALSE, fetched |-> FALSE,
     tag |-> Empty, latest_version |-> <<>>, logged |-> "none", exc |-> "none"]

\* Lines 431-438: the import and the read of the interval.
check_for_updates(w, imports, interval) ==
    /\ update[w].pc = "idle"
    /\ proc[w].pc = "idle"
    /\ update' = [update EXCEPT ![w] =
                    IF imports = "AppRegistryNotReady"
                    THEN [NoUpdate EXCEPT !.logged = "info: not ready"]
                    ELSE [NoUpdate EXCEPT !.pc = "call", !.interval = interval]]
    /\ UNCHANGED <<holdoffVars, nonUpdateVars>>

\* Line 441: the call `check_daily_holdoff('check_for_updates', interval)`.
UpdateCallHoldoff(w) ==
    /\ update[w].pc = "call"
    /\ CallHoldoff(w, "check_for_updates", update[w].interval)

\* Lines 441-442: the result of the gate: False ends the run.
UpdateGate(w) ==
    /\ update[w].pc = "call"
    /\ proc[w].pc \in {"done", "raised"}
    /\ proc' = [proc EXCEPT ![w] = Idle]
    /\ update' = [update EXCEPT ![w] =
                    IF proc[w].pc = "raised"
                    THEN [@ EXCEPT !.pc = "idle", !.exc = "Exception"]
                    ELSE IF proc[w].result
                    THEN [@ EXCEPT !.pc = "request", !.gate = TRUE]
                    ELSE [@ EXCEPT !.pc = "idle"]]
    /\ UNCHANGED <<now, settings, nonUpdateVars>>

\* Lines 455-482: the request, the tests of the response, the match of the
\* tag and latest_version. `match.groups()` on the None of a tag that does
\* not match raises AttributeError; a match has three groups, so that the
\* test of line 474 is never true.
FetchAndParse(w, response) ==
    /\ update[w].pc = "request"
    /\ LET tag == response.tag_name
           match == Match(tag)
           run == [update[w] EXCEPT !.fetched = TRUE, !.tag = tag, !.pc = "idle"]
       IN  update' = [update EXCEPT ![w] =
               IF response.status_code # 200 THEN [run EXCEPT !.exc = "ValueError"]
               ELSE IF tag = Empty THEN [run EXCEPT !.exc = "ValueError"]
               ELSE IF ~match.matched THEN [run EXCEPT !.exc = "AttributeError"]
               ELSE IF Len(match.groups) # 3
               THEN [run EXCEPT !.logged = "warning: did not match"]
               ELSE [run EXCEPT !.pc = "save",
                                !.logged = "info: latest version",
                                !.latest_version =
                                    [i \in 1 .. 3 |-> ToInt(match.groups[i])]]]
    /\ UNCHANGED <<holdoffVars, nonUpdateVars>>

\* Lines 485-489: `set_setting('_INVENTREE_LATEST_VERSION', tag, None)`
SaveLatestVersion(w) ==
    /\ update[w].pc = "save"
    /\ settings' = SetSetting(LatestVersionKey, update[w].tag)
    /\ update' = [update EXCEPT ![w].pc = "success"]
    /\ UNCHANGED <<now, proc, nonUpdateVars>>

\* Line 492: `record_task_success('check_for_updates')`
UpdateSuccess(w) ==
    /\ update[w].pc = "success"
    /\ settings' = SetSetting(SuccessKey("check_for_updates"), IsoFormat(now))
    /\ update' = [update EXCEPT ![w].pc = "idle"]
    /\ UNCHANGED <<now, proc, nonUpdateVars>>

-----------------------------------------------------------------------------
(* The specifications                                                      *)

\* What the store may hold when the workers start.
InitStored == {Empty, IsoFormat(0)} \cup Malformed

InitOffload ==
    /\ queue = <<>>
    /\ invoked = <<>>
    /\ last = NoCall
    /\ calls = 0

\* No call of schedule_task yet, and an empty Schedule table.
InitSchedule ==
    /\ schedules = <<>>
    /\ sproc = [p \in Procs |-> NotScheduling]
    /\ slog = <<>>
    /\ scalls = 0

\* The list of the class as line 253 makes it, and no registration yet.
InitRegister ==
    /\ task_list = <<>>
    /\ rlast = NoRegistration
    /\ rcalls = 0

\* No run of check_for_migrations, and the site not in maintenance.
InitMigrationIdle ==
    /\ maintenance = FALSE
    /\ mig = NoRun("django.db.backends.sqlite3")
    /\ mtrace = <<>>
    /\ mruns = 0

\* No worker in run_backup.
InitBackupIdle ==
    backup = [w \in Workers |-> NoBackup]

\* No worker in check_for_updates.
InitUpdateIdle ==
    update = [w \in Workers |-> NoUpdate]

Init ==
    /\ now = 0
    /\ settings \in [Keys -> InitStored]
    /\ proc = [w \in Workers |-> Idle]
    /\ InitOffload
    /\ InitSchedule
    /\ InitRegister
    /\ InitMigrationIdle
    /\ InitBackupIdle
    /\ InitUpdateIdle

Next ==
    \/ \E w \in Workers, t \in Tasks, n \in NDays : CallHoldoff(w, t, n)
    \/ \E w \in Workers : CheckSuccess(w)
    \/ \E w \in Workers : CheckAttempt(w)
    \/ \E w \in Workers : record_task_attempt(w)
    \/ \E w \in Workers : ReturnHoldoff(w)
    \/ \E t \in Tasks : record_task_success(t)
    \/ Tick

\* The hold-off tracker run by the workers.
Spec == Init /\ [][Next]_vars

\* No worker in check_daily_holdoff, and an empty settings store.
InitHoldoffIdle ==
    /\ now = 0
    /\ settings = [k \in Keys |-> Empty]
    /\ proc = [w \in Workers |-> Idle]

InitDispatch ==
    /\ InitHoldoffIdle
    /\ InitOffload
    /\ InitSchedule
    /\ InitRegister
    /\ InitMigrationIdle
    /\ InitBackupIdle
    /\ InitUpdateIdle

NextDispatch ==
    \E taskname \in TaskNames, a \in Arguments, force_async \in BOOLEAN,
       force_sync \in BOOLEAN, live \in BOOLEAN, imports \in ImportOutcomes :
        offload_task(taskname, a, force_async, force_sync, live, imports)

\* The dispatcher.
SpecDispatch == InitDispatch /\ [][NextDispatch]_vars

InitScheduling ==
    /\ InitHoldoffIdle
    /\ InitOffload
    /\ InitSchedule
    /\ InitRegister
    /\ InitMigrationIdle
    /\ InitBackupIdle
    /\ InitUpdateIdle

NextUpsert ==
    \/ \E taskname \in ScheduleNames, kw \in Kwargs, imp \in ScheduleImports :
            schedule_task("p1", taskname, kw, imp)
    \/ \E db \in DbOutcomes : ScheduleExists("p1", db)
    \/ \E db \in DbOutcomes : ScheduleUpdate("p1", db)
    \/ \E db \in DbOutcomes : ScheduleCreate("p1", db)

\* One process calling schedule_task again and again: successive calls.
SpecUpsert == InitScheduling /\ [][NextUpsert]_vars

NextScheduling ==
    \/ \E p \in Procs, taskname \in ScheduleNames, kw \in Kwargs, imp \in ScheduleImports :
            schedule_task(p, taskname, kw, imp)
    \/ \E p \in Procs, db \in DbOutcomes : ScheduleExists(p, db)
    \/ \E p \in Procs, db \in DbOutcomes : ScheduleUpdate(p, db)
    \/ \E p \in Procs, db \in DbOutcomes : ScheduleCreate(p, db)

InitRegistry ==
    /\ InitHoldoffIdle
    /\ InitOffload
    /\ InitSchedule
    /\ InitRegister
    /\ InitMigrationIdle
    /\ InitBackupIdle
    /\ InitUpdateIdle

NextRegistry ==
    \/ \E self \in Registers, task \in Objects, schedule \in Intervals,
          minutes \in MinutesGiven : register(self, task, schedule, minutes)
    \/ \E interval \in Intervals, minutes \in MinutesGiven,
          tasklist \in TasklistGiven, admin_class \in Objects :
            scheduled_task(interval, minutes, tasklist, admin_class)

\* Registrations of tasks, by register and by the decorator.
SpecRegistry == InitRegistry /\ [][NextRegistry]_vars

\* The engine is that of the deployment; the flag is as the operator or an
\* earlier run left it.
InitMigration ==
    /\ InitHoldoffIdle
    /\ InitOffload
    /\ InitSchedule
    /\ InitRegister
    /\ maintenance \in BOOLEAN
    /\ mig \in {NoRun(e) : e \in Engines}
    /\ mtrace = <<>>
    /\ mruns = 0
    /\ InitBackupIdle
    /\ InitUpdateIdle

NextMigration ==
    \/ \E auto_update \in BOOLEAN, plan \in Plans :
            check_for_migrations(auto_update, plan)
    \/ SetMaintenance
    \/ EnterMaintenanceModeOn
    \/ \E outcome \in MigrateOutcomes : Migrate(outcome)
    \/ \E released \in BOOLEAN : ExitMaintenanceModeOn(released)
    \/ ForceClear
    \/ ReloadPlugins

\* Runs of check_for_migrations, one after the other.
SpecMigration == InitMigration /\ [][NextMigration]_vars

\* The SUCCESS and ATTEMPT of run_backup are as earlier runs left them.
InitBackup ==
    /\ now = 0
    /\ settings \in [Keys -> {Empty, IsoFormat(0)}]
    /\ proc = [w \in Workers |-> Idle]
    /\ InitOffload
    /\ InitSchedule
    /\ InitRegister
    /\ InitMigrationIdle
    /\ InitBackupIdle
    /\ InitUpdateIdle

NextBackup ==
    \/ \E w \in Workers, enabled \in BOOLEAN, interval \in BackupDays :
            run_backup(w, enabled, interval)
    \/ \E w \in Workers : BackupCallHoldoff(w)
    \/ \E w \in Workers : CheckSuccess(w)
    \/ \E w \in Workers : CheckAttempt(w)
    \/ \E w \in Workers : record_task_attempt(w)
    \/ \E w \in Workers : BackupGate(w)
    \/ \E w \in Workers, outcome \in CommandOutcomes : DbBackup(w, outcome)
    \/ \E w \in Workers, outcome \in CommandOutcomes : MediaBackup(w, outcome)
    \/ \E w \in Workers : BackupSuccess(w)
    \/ Tick

\* run_backup run by the workers, at any times.
SpecBackup == InitBackup /\ [][NextBackup]_vars

\* The keys check_for_updates reads and writes.
UpdateKeys ==
    {AttemptKey("check_for_updates"), SuccessKey("check_for_updates"), LatestVersionKey}

\* The latest version an earlier run stored.
StoredVersion == <<"0", ".", "9", ".", "0">>

\* SUCCESS and ATTEMPT of check_for_updates are as earlier runs left them.
InitUpdates ==
    /\ now = 0
    /\ settings \in { st \in [UpdateKeys -> {Empty, IsoFormat(0), StoredVersion}] :
                        /\ st[LatestVersionKey] = StoredVersion
                        /\ st[AttemptKey("check_for_updates")] \in {Empty, IsoFormat(0)}
                        /\ st[SuccessKey("check_for_updates")] \in {Empty, IsoFormat(0)} }
    /\ proc = [w \in Workers |-> Idle]
    /\ InitOffload
    /\ InitSchedule
    /\ InitRegister
    /\ InitMigrationIdle
    /\ InitBackupIdle
    /\ InitUpdateIdle

NextUpdates ==
    \/ \E w \in Workers, imports \in UpdateImports, interval \in UpdateIntervals :
            check_for_updates(w, imports, interval)
    \/ \E w \in Workers : UpdateCallHoldoff(w)
    \/ \E w \in Workers : CheckSuccess(w)
    \/ \E w \in Workers : CheckAttempt(w)
    \/ \E w \in Workers : record_task_attempt(w)
    \/ \E w \in Workers : UpdateGate(w)
    \/ \E w \in Workers, response \in Responses : FetchAndParse(w, response)
    \/ \E w \in Workers : SaveLatestVersion(w)
    \/ \E w \in Workers : UpdateSuccess(w)
    \/ Tick

\* check_for_updates run by the workers, at any times.
SpecUpdates == InitUpdates /\ [][NextUpdates]_vars

\* Several processes calling schedule_task on the shared table.
SpecScheduling == InitScheduling /\ [][NextScheduling]_vars

-----------------------------------------------------------------------------
(* The hold-off tracker: claims C1 to C7                                   *)

\* The stored string raw is the timestamp of a time less than `window` ticks
\* before the time t.
StampWithin(raw, t, window) ==
    \E s \in Times : raw = IsoFormat(s) /\ t - s < window

\* The stored string raw is the timestamp of a time at least `window` ticks
\* before the time t.
StampOlder(raw, t, window) ==
    \E s \in Times : raw = IsoFormat(s) /\ t - s >= window

\* C1 as stated: ATTEMPT is written by every call that returns True and by
\* nothing else, so the value a True call overwrites is the time of the
\* previous True call for the task; under every interleaving of the workers
\* that previous True call lies at least one period back. The period is taken
\* as the twelve hours of the attempt guard, the shortest reading; a period of
\* n_days fails a fortiori.
C1_AtMostOneTruePerPeriod ==
    \A w \in Workers :
        (proc[w].pc = "done" /\ proc[w].result)
            => ~StampWithin(proc[w].prev, proc[w].wrote, AttemptHoldoff)

\* C1 as amended: a call that returns True, and between whose read of ATTEMPT
\* and whose own write of it no other worker has written ATTEMPT, overwrites
\* no attempt younger than twelve hours: True calls that do not overlap in
\* this way are at least twelve hours apart.
C1_AtMostOneTrueUnlessOverlap ==
    \A w \in Workers :
        (proc[w].pc = "done" /\ proc[w].result /\ proc[w].prev = proc[w].last_attempt)
            => ~StampWithin(proc[w].prev, proc[w].wrote, AttemptHoldoff)

\* Both workers were inside check_daily_holdoff for the task, one has returned
\* True over an earlier recorded attempt that nobody replaced meanwhile.
C1_Witness ==
    \E w \in Workers, v \in Workers :
        /\ w # v
        /\ proc[w].pc = "done" /\ proc[w].result
        /\ proc[w].prev = proc[w].last_attempt
        /\ StampOlder(proc[w].prev, proc[w].wrote, AttemptHoldoff)
        /\ proc[v].pc = "done" /\ proc[v].task = proc[w].task /\ ~proc[v].result

\* C2: a call with n_days >= 1 that reads a SUCCESS timestamp less than n_days
\* old returns False there and then, without looking at ATTEMPT and without
\* writing; and what record_task_success has just written is such a timestamp
\* for every n_days >= 1, so a check that follows it at once returns False.
C2_RecentSuccessReturnsFalse ==
    [][ /\ \A w \in Workers :
              ( /\ proc[w].pc = "success"
                /\ proc'[w] # proc[w]
                /\ StampWithin(GetSetting(SuccessKey(proc[w].task), Empty), now,
                               proc[w].n_days * Day) )
              => ( /\ proc'[w].pc = "done"
                   /\ proc'[w].result = FALSE
                   /\ settings' = settings )
        /\ \A t \in Tasks :
              settings'[SuccessKey(t)] # settings[SuccessKey(t)]
              => \A n \in 1 .. MaxDays :
                    StampWithin(settings'[SuccessKey(t)], now', n * Day)
      ]_vars

\* A call has returned False on the SUCCESS guard while ATTEMPT is malformed,
\* and the SUCCESS it read was written by record_task_success at this very time.
C2_Witness ==
    \E w \in Workers :
        /\ proc[w].pc = "done" /\ proc[w].line = 120 /\ ~proc[w].result
        /\ now > 0
        /\ settings[SuccessKey(proc[w].task)] = IsoFormat(now)
        /\ settings[AttemptKey(proc[w].task)] \in Malformed

\* C3: a call with n_days >= 1 that reads an ATTEMPT timestamp less than twelve
\* hours old returns False without writing, whatever SUCCESS holds; a call that
\* does not get as far as reading ATTEMPT has returned False already.
C3_RecentAttemptReturnsFalse ==
    [][ \A w \in Workers :
          /\ ( /\ proc[w].pc = "attempt"
               /\ proc'[w] # proc[w]
               /\ StampWithin(GetSetting(AttemptKey(proc[w].task), Empty), now,
                              AttemptHoldoff) )
             => ( /\ proc'[w].pc = "done"
                  /\ proc'[w].result = FALSE
                  /\ settings' = settings )
          /\ ( /\ proc[w].pc = "success"
               /\ proc'[w] # proc[w]
               /\ proc'[w].pc # "attempt" )
             => ( /\ proc'[w].pc = "done"
                  /\ proc'[w].result = FALSE )
      ]_vars

\* A call has returned False on the ATTEMPT guard while SUCCESS is malformed.
C3_WitnessMalformedSuccess ==
    \E w \in Workers :
        /\ proc[w].pc = "done" /\ proc[w].line = 137 /\ ~proc[w].result
        /\ proc[w].last_attempt = IsoFormat(now)
        /\ settings[SuccessKey(proc[w].task)] \in Malformed

\* C4: with n_days >= 1 the call goes on past the SUCCESS guard exactly when
\* SUCCESS holds no timestamp younger than n_days, past the ATTEMPT guard
\* exactly when ATTEMPT holds none younger than twelve hours, and returns
\* True exactly from there; that step, and no other step of the call, writes
\* the store: it sets the task's ATTEMPT to the current time and nothing else.
\* SUCCESS changes in no step of check_daily_holdoff.
C4_TrueIffNoGuardFires ==
    [][ /\ \A w \in Workers :
              LET p == proc[w]
                  q == proc'[w]
                  last_success == GetSetting(SuccessKey(p.task), Empty)
                  last_attempt == GetSetting(AttemptKey(p.task), Empty)
              IN  /\ (p.pc = "success" /\ q # p)
                        => /\ q.pc = IF StampWithin(last_success, now, p.n_days * Day)
                                     THEN "done" ELSE "attempt"
                           /\ q.pc = "done" => ~q.result
                           /\ settings' = settings
                  /\ (p.pc = "attempt" /\ q # p)
                        => /\ q.pc = IF StampWithin(last_attempt, now, AttemptHoldoff)
                                     THEN "done" ELSE "record"
                           /\ q.pc = "done" => ~q.result
                           /\ settings' = settings
                  /\ (p.pc = "record" /\ q # p)
                        => /\ q.pc = "done" /\ q.result
                           /\ settings' =
                                 [settings EXCEPT ![AttemptKey(p.task)] = IsoFormat(now)]
                  /\ (q.pc = "done" /\ p.pc # "done" /\ q.result) => p.pc = "record"
        /\ \A t \in Tasks :
              /\ settings'[SuccessKey(t)] # settings[SuccessKey(t)] => proc' = proc
              /\ settings'[AttemptKey(t)] # settings[AttemptKey(t)]
                    => \E w \in Workers : proc[w].pc = "record" /\ proc'[w].pc = "done"
      ]_vars

\* A call has returned True over a stale SUCCESS and a stale ATTEMPT, and the
\* ATTEMPT setting holds the time of that call.
C4_Witness ==
    \E w \in Workers :
        /\ proc[w].pc = "done" /\ proc[w].result /\ proc[w].wrote = now
        /\ settings[AttemptKey(proc[w].task)] = IsoFormat(now)
        /\ StampOlder(proc[w].prev, now, AttemptHoldoff)
        /\ StampOlder(settings[SuccessKey(proc[w].task)], now, proc[w].n_days * Day)

\* C5: a call with n_days <= 0 returns False in its first step and leaves the
\* store as it was.
C5_NonPositiveIntervalReturnsFalse ==
    [][ \A w \in Workers :
          (proc[w].pc = "idle" /\ proc'[w].pc # "idle" /\ proc'[w].n_days <= 0)
          => ( /\ proc'[w].pc = "done"
               /\ proc'[w].result = FALSE
               /\ settings' = settings )
      ]_vars

\* A call with n_days = 0 has returned False although neither guard would
\* have fired.
C5_Witness ==
    \E w \in Workers :
        /\ proc[w].pc = "done" /\ proc[w].n_days = 0 /\ ~proc[w].result
        /\ proc[w].line = 98
        /\ settings[SuccessKey(proc[w].task)] = Empty
        /\ settings[AttemptKey(proc[w].task)] = Empty

\* C6: T is the time of the latest call that returned True, which is what
\* ATTEMPT holds. A call that finds no SUCCESS timestamp younger than n_days
\* and reads ATTEMPT at a time >= T + 12 hours goes on to return True, however
\* large n_days is; and a call that reads the SUCCESS timestamp S at a time
\* before S + n_days returns False.
C6_RetryAfterTwelveHoursUnlessSuccess ==
    [][ \A w \in Workers :
          LET p == proc[w]
              q == proc'[w]
          IN  /\ ( /\ p.pc = "success" /\ q # p
                   /\ ~StampWithin(GetSetting(SuccessKey(p.task), Empty), now,
                                   p.n_days * Day) )
                 => q.pc = "attempt"
              /\ ( /\ p.pc = "attempt" /\ q # p
                   /\ StampOlder(GetSetting(AttemptKey(p.task), Empty), now,
                                 AttemptHoldoff) )
                 => q.pc = "record"
              /\ (p.pc = "record" /\ q # p) => (q.pc = "done" /\ q.result)
              /\ \A S \in Times :
                    ( /\ p.pc = "success" /\ q # p
                      /\ GetSetting(SuccessKey(p.task), Empty) = IsoFormat(S)
                      /\ now < S + p.n_days * Day )
                    => (q.pc = "done" /\ ~q.result)
      ]_vars

\* A call with n_days = 2 has returned True twelve hours after the previous
\* True call, well inside the two days.
C6_Witness ==
    \E w \in Workers, T \in Times :
        /\ proc[w].pc = "done" /\ proc[w].result /\ proc[w].n_days = 2
        /\ T > 0
        /\ proc[w].prev = IsoFormat(T)
        /\ proc[w].wrote = T + AttemptHoldoff

\* C7: a call that reads a malformed SUCCESS goes on to the ATTEMPT guard as
\* it does on an empty one, a call that reads a malformed ATTEMPT goes on to
\* record the attempt as it does on an empty one, neither writes the store in
\* that step, and no step of a call ends in an exception.
C7_MalformedIsAbsent ==
    [][ \A w \in Workers :
          LET p == proc[w]
              q == proc'[w]
          IN  /\ ( /\ p.pc = "success" /\ q # p
                   /\ GetSetting(SuccessKey(p.task), Empty) \in Malformed \cup {Empty} )
                 => (q = [p EXCEPT !.pc = "attempt"] /\ settings' = settings)
              /\ ( /\ p.pc = "attempt" /\ q # p
                   /\ GetSetting(AttemptKey(p.task), Empty) \in Malformed \cup {Empty} )
                 => (q.pc = "record" /\ settings' = settings)
              /\ q.pc # "raised"
      ]_vars

\* A call has returned True over a malformed SUCCESS and a malformed ATTEMPT.
C7_Witness ==
    \E w \in Workers :
        /\ proc[w].pc = "done" /\ proc[w].result
        /\ proc[w].last_attempt \in Malformed
        /\ proc[w].prev \in Malformed
        /\ settings[SuccessKey(proc[w].task)] \in Malformed

-----------------------------------------------------------------------------
(* The dispatcher: claims C8 to C12                                        *)

\* The task is a function, or a string `module.name` where the module can be
\* imported and exports the name; fn is the function meant.
Resolves(taskname, fn) ==
    \/ taskname.callable /\ taskname.name = fn
    \/ /\ ~taskname.callable
       /\ \E m \in DOMAIN Modules : \E n \in DOMAIN Modules[m] :
             taskname.str = m \o <<".">> \o n /\ Modules[m][n] = fn

C9_SyncRunsOnce ==
    [][ \A fn \in Functions :
          (calls' = calls + 1 /\ last'.path = "sync" /\ Resolves(last'.taskname, fn))
          => /\ invoked' = Append(invoked, [func |-> fn,
                                            args |-> last'.arguments.args,
                                            kwargs |-> last'.arguments.kwargs])
             /\ queue' = queue
             /\ last'.exc = BodyException(fn)
      ]_vars

\* The string a.b.r was run inline with arguments and its exception reached
\* the caller.
C9_Witness ==
    /\ calls > 0
    /\ last.path = "sync"
    /\ last.taskname = Path(<<"a", ".", "b", ".", "r">>)
    /\ last.force_sync /\ last.live
    /\ last.exc = "TaskError"
    /\ invoked = <<[func |-> "g", args |-> <<1>>, kwargs |-> << <<"k", 2>> >>]>>
    /\ queue = <<>>

\* C10: on the synchronous branch a string that resolves to no function (not
\* three components, or no such module, or no such name in the module) runs
\* no function and ends without an exception.
C10_UnresolvedRunsNothing ==
    [][ ( /\ calls' = calls + 1
          /\ last'.path = "sync"
          /\ ~last'.taskname.callable
          /\ \A fn \in Functions : ~Resolves(last'.taskname, fn) )
        => (invoked' = invoked /\ last'.exc = "none")
      ]_vars

C12_NotReadyReturns ==
    [][ (calls' = calls + 1 /\ last'.imports # "ok")
        => /\ last'.warned
           /\ queue' = queue
           /\ invoked' = invoked
           /\ last'.exc = "none"
      ]_vars

-----------------------------------------------------------------------------
(* schedule_task: claims C13 to C15                                        *)

\* The rows of the table whose func is the given name.
RowsOf(taskname) ==
    {i \in 1 .. Len(schedules) : schedules[i].func = taskname}

\* The calls i and i+1 of the log were made one after the other for one name,
\* the first created the row and the second, which has just returned, found it.
Upserted(i) ==
    /\ Len(slog) = i + 1
    /\ slog[i].taskname = slog[i + 1].taskname
    /\ slog[i].outcome = "created"
    /\ slog[i + 1].outcome = "updated"

C14_AtMostOneRowPerFunc ==
    \A n \in ScheduleNames : Cardinality(RowsOf(n)) <= 1

\* C15: a call that meets AppRegistryNotReady at the import, or
\* OperationalError or ProgrammingError at a statement on the table, returns
\* at that step (the process is out of schedule_task, the exception is in the
\* log as caught) and the table is as it was.
C15_UnavailableStoreIsNoOp ==
    [][ \A p \in Procs :
          \/ /\ sproc[p].pc # "idle"
             /\ sproc'[p].pc = "idle"
             /\ slog'[Len(slog')].outcome \notin {"created", "updated"}
          \/ /\ scalls' = scalls + 1
             /\ sproc[p].pc = "idle"
             /\ Len(slog') = Len(slog) + 1
             /\ slog'[Len(slog')].proc = p
          => /\ schedules' = schedules
             /\ sproc'[p] = NotScheduling
             /\ slog'[Len(slog')].outcome \in
                   {"AppRegistryNotReady", "OperationalError", "ProgrammingError"}
      ]_vars

\* A call created a row; the next found it and met OperationalError at the
\* update: the row is as the first call created it.
C15_Witness ==
    /\ Len(slog) = 2
    /\ slog[1].outcome = "created"
    /\ slog[1].taskname = slog[2].taskname
    /\ slog[2].outcome = "OperationalError"
    /\ sproc[slog[2].proc] = NotScheduling
    /\ schedules = Create(<<>>, slog[1].taskname, slog[1].kwargs)

-----------------------------------------------------------------------------
(* The registry: claim C16                                                 *)

\* C16: a registration of a task that is not callable, or with an interval
\* that is none of the seven, ends in an error raised to the caller and
\* leaves the list of the registry as it was, by `register` as by the
\* decorator.
C16_InvalidRegistrationFails ==
    [][ (rcalls' = rcalls + 1
         /\ (~IsCallable(rlast'.task) \/ ~ValidInterval(rlast'.interval)))
        => /\ rlast'.exc = "ValueError"
           /\ task_list' = task_list
      ]_vars

-----------------------------------------------------------------------------
(* check_for_migrations: claims C17 to C19                                 *)

\* The places of the trace of the latest run where the event ev stands.
EventsOf(ev) == {i \in 1 .. Len(mtrace) : mtrace[i].ev = ev}

\* The latest run went into the migrations (auto-update on, a plan that is
\* not empty).
Migrating == mig.auto_update /\ mig.plan # <<>>

\* The latest run has ended.
RunEnded == mruns > 0 /\ mig.pc = "idle"

\* C17, its conclusion: when a run that went into the guarded block has
\* ended, by its return or by an exception of the migration that goes to the
\* caller, the maintenance flag is false.
C17_FlagFalseWhenRunEnds ==
    (RunEnded /\ EventsOf("exit") # {}) => ~maintenance

\* What C18 says of the events of a run so far: set true comes first and
\* once; the migrations are applied after it, once, with the flag true; the
\* reload is the last event, comes once, after the exit of the block, with
\* the flag false; a run that does not go into the migrations has no event.
OrderedRun ==
    /\ ~Migrating => mtrace = <<>> /\ mig.pc = "idle"
    /\ mtrace # <<>> => mtrace[1] = Event("set_true", TRUE)
    /\ EventsOf("set_true") \subseteq {1}
    /\ \A i \in EventsOf("migrate") :
          /\ mtrace[i].flag
          /\ EventsOf("migrate") = {i}
          /\ \E j \in EventsOf("enter") : j < i
    /\ \A i \in EventsOf("reload") :
          /\ ~mtrace[i].flag
          /\ i = Len(mtrace)
          /\ EventsOf("reload") = {i}
          /\ \E j \in EventsOf("exit") :
                /\ j < i
                /\ \A k \in j .. i : mtrace[k].ev \in {"exit", "force_clear", "reload"}
                /\ mtrace[i - 1].flag = FALSE
    /\ (RunEnded /\ Migrating /\ mig.exc = "none") =>
          /\ Cardinality(EventsOf("reload")) = 1
          /\ mig.outcome = "ok" => Cardinality(EventsOf("migrate")) = 1
          /\ ~maintenance

\* C18: in a run with auto-update on and a plan that is not empty the flag is
\* set true, then the migrations are applied (the flag being true), then the
\* flag is false (by the exit of the block or else by the forced clearing),
\* then the plugins are reloaded in full, once, the flag being false. A call
\* with auto-update off or an empty plan changes no flag, applies no
\* migration and reloads nothing.
C18_OrderOfARun ==
    [][ /\ OrderedRun'
        /\ (mruns' = mruns + 1 /\ ~Migrating') =>
              /\ maintenance' = maintenance
              /\ mig'.pc = "idle"
      ]_vars

\* A run on two open migrations: the exit of the block put the flag back to
\* true, the forced clearing made it false, then came the reload.
C18_Witness ==
    /\ RunEnded
    /\ mig.plan = <<"0001_initial", "0002_auto">>
    /\ mtrace = <<Event("set_true", TRUE), Event("enter", TRUE),
                  Event("migrate", TRUE), Event("exit", TRUE),
                  Event("force_clear", FALSE), Event("reload", FALSE)>>
    /\ ~maintenance

\* C19: when migrate has raised NotSupportedError, then on sqlite3 the run
\* has no exception and goes on to the exit of the block and to the reload,
\* ending with the flag false; on any other engine the exception goes to the
\* caller, the run ends at the exit of the block and reloads nothing.
C19_NotSupportedOnlyOnSqlite ==
    mig.outcome = "NotSupportedError" =>
        IF mig.engine = "django.db.backends.sqlite3"
        THEN /\ mig.exc = "none"
             /\ RunEnded => /\ EventsOf("reload") = {Len(mtrace)}
                            /\ ~maintenance
        ELSE /\ mig.exc = "NotSupportedError"
             /\ mig.pc \in {"exit", "idle"}
             /\ EventsOf("reload") = {}
             /\ EventsOf("force_clear") = {}

\* On sqlite3 migrate raised NotSupportedError; the run went on and ended
\* with the reload, out of maintenance.
C19_Witness ==
    /\ RunEnded
    /\ mig.engine = "django.db.backends.sqlite3"
    /\ mig.outcome = "NotSupportedError"
    /\ mig.exc = "none"
    /\ mtrace[Len(mtrace)] = Event("reload", FALSE)
    /\ \E i \in 1 .. Len(mtrace) : mtrace[i] = Event("NotSupportedError", TRUE)

-----------------------------------------------------------------------------
(* run_backup: claim C20                                                   *)

\* The worker w is at line 558: backups were enabled, the gate returned True
\* and dbbackup, then mediabackup, returned without an error.
BackupDone(w) ==
    /\ backup[w].pc = "success"
    /\ backup[w].enabled
    /\ backup[w].gate
    /\ backup[w].exc = "none"
    /\ backup[w].ran = << <<"dbbackup", "ok">>, <<"mediabackup", "ok">> >>

\* C20: SUCCESS of run_backup is written only by a run with backups enabled
\* whose gate returned True and whose two commands returned without error,
\* after the second of them, with the time of the write. A command that
\* raises ends the run at that step with the settings as they are, so that
\* of this run only the ATTEMPT written by the gate is in the store. A run
\* with backups disabled ends at once, writes no setting, does not enter the
\* gate and invokes no command.
C20_SuccessOnlyAfterBothBackups ==
    [][ /\ settings'[SuccessKey("run_backup")] # settings[SuccessKey("run_backup")]
            => \E w \in Workers :
                  /\ BackupDone(w)
                  /\ backup'[w].pc = "idle"
                  /\ settings' = SetSetting(SuccessKey("run_backup"), IsoFormat(now))
        /\ \A w \in Workers :
            /\ (backup[w].pc = "success" /\ backup'[w].pc # "success")
                  => /\ BackupDone(w)
                     /\ settings'[SuccessKey("run_backup")] = IsoFormat(now)
            /\ (backup'[w].exc = "CommandError" /\ backup[w].exc # "CommandError")
                  => /\ settings' = settings
                     /\ backup'[w].pc = "idle"
                     /\ backup[w].gate
                     /\ FromIsoFormat(settings[AttemptKey("run_backup")]).exc = "none"
            /\ (backup[w].pc = "idle" /\ backup' # backup /\ ~backup'[w].enabled
                /\ backup'[w] # backup[w])
                  => /\ settings' = settings
                     /\ proc' = proc
                     /\ backup'[w] = NoBackup
            /\ (backup[w].pc = "idle" /\ backup'[w].pc = "idle")
                  => backup'[w] = backup[w] \/ backup'[w] = NoBackup
            /\ backup'[w].ran # <<>> => backup'[w].enabled /\ backup'[w].gate
      ]_vars

\* A run whose gate returned True at tick 1 made the database backup; the
\* media backup raised: the run has ended, SUCCESS is empty as before and
\* ATTEMPT has the time of the gate.
C20_Witness ==
    \E w \in Workers :
        /\ backup[w].pc = "idle"
        /\ backup[w].exc = "CommandError"
        /\ backup[w].ran = << <<"dbbackup", "ok">>, <<"mediabackup", "CommandError">> >>
        /\ settings[SuccessKey("run_backup")] = Empty
        /\ settings[AttemptKey("run_backup")] = IsoFormat(1)

-----------------------------------------------------------------------------
(* check_for_updates: claim C21                                            *)

\* The tag has three groups of digits with dots between them.
ThreeGroups(tag) ==
    \E i, j, k, l \in 1 .. Len(tag) :
        /\ i <= j /\ j + 2 <= k /\ k + 2 <= l
        /\ tag[j + 1] = "." /\ tag[k + 1] = "."
        /\ \A n \in (i .. j) \cup (j + 2 .. k) \cup (k + 2 .. l) : tag[n] \in DigitChars

\* C21: a run that has passed the gate and whose response has a tag without
\* three groups of digits between dots ends at the parsing with a logged
\* message and no exception to the caller, the stored latest version and
\* SUCCESS being as they were; a run whose tag has them writes the tag as the
\* latest version and then records SUCCESS.
C21_BadTagIsLoggedNotRaised ==
    [][ \A w \in Workers :
          /\ (update[w].pc = "request" /\ update'[w].fetched
              /\ update'[w].tag # Empty /\ ~ThreeGroups(update'[w].tag))
                => /\ update'[w].pc = "idle"
                   /\ update'[w].exc = "none"
                   /\ update'[w].logged # "none"
                   /\ settings' = settings
          /\ (update[w].pc = "request" /\ update'[w].fetched
              /\ ThreeGroups(update'[w].tag))
                => update'[w].pc = "save"
          /\ (update[w].pc = "save" /\ update'[w].pc # "save")
                => /\ update'[w].pc = "success"
                   /\ settings' = SetSetting(LatestVersionKey, update[w].tag)
          /\ (update[w].pc = "success" /\ update'[w].pc # "success")
                => /\ update'[w].pc = "idle"
                   /\ settings' = SetSetting(SuccessKey("check_for_updates"),
                                             IsoFormat(now))
      ]_vars

-----------------------------------------------------------------------------
(* The registry: claim C22                                                 *)

\* C22: a registration through scheduled_task that succeeds adds the task to
\* the registry it was made into (the tasklist given, or the default `tasks`)
\* and every other instance of TaskRegister has the task list it had before.
C22_OtherRegistriesUnchanged ==
    [][ (rcalls' = rcalls + 1 /\ rlast'.via = "scheduled_task" /\ rlast'.exc = "none")
        => /\ TaskListOf(rlast'.self)' =
                 Append(TaskListOf(rlast'.self),
                        ScheduledTask(rlast'.task, rlast'.interval, rlast'.minutes))
           /\ \A reg \in Registers \ {rlast'.self} :
                 TaskListOf(reg)' = TaskListOf(reg)
      ]_vars

====
